---- MODULE Spec2Model ----
(***************************************************************************)
(* Consensus-parameter governance of CometBFT (types/params.go): the       *)
(* parameter set, the activation predicates, ValidateBasic, ValidateUpdate *)
(* with its per-feature guards, and Update.                                *)
(*                                                                         *)
(* A pointer of the wire-format delta (a cmtproto message) is a sequence of *)
(* length 0 (nil) or 1 (the pointee).  A []string is an address into heap, *)
(* the backing arrays of the slices; time.Duration is counted in           *)
(* milliseconds.                                                           *)
(***************************************************************************)
EXTENDS Integers, Sequences, FiniteSets, TLC

VARIABLES
    params,   \* the receiver: the current ConsensusParams
    updated,  \* the delta *cmtproto.ConsensusParams handed to the call
    h,        \* the height handed to the call
    heap,     \* backing arrays of the []string values, by address
    op,       \* the operation that ran last
    err,      \* what ValidateUpdate returned
    enabled,  \* what the activation predicate returned
    res,      \* what Update returned
    old       \* the receiver, by value, as it was before the operation

vars == <<params, updated, h, heap, op, err, enabled, res, old>>

----------------------------------------------------------------------------
(* Bounds *)

MaxHeight == 3

\* heights handed to the calls; those below 1 are the caller-contract violations
Heights == -1..MaxHeight

\* values of the enable-height fields, the negative ones ValidateBasic refuses included
EnableHeights == -1..MaxHeight

----------------------------------------------------------------------------
(* Constants of the program *)

MaxBlockSizeBytes == 100 * 1024 * 1024

ABCIPubKeyTypeEd25519 == "ed25519"

ABCIPubKeyTypeSecp256k1 == "secp256k1"

ABCIPubKeyTypesToNames ==
    [k \in {ABCIPubKeyTypeEd25519, ABCIPubKeyTypeSecp256k1} |->
        IF k = ABCIPubKeyTypeEd25519 THEN "tendermint/PubKeyEd25519"
                                     ELSE "tendermint/PubKeySecp256k1"]

NoErr == "nil"

ErrPanic == "panic"

ErrDisable == "vote extensions cannot be disabled once enabled"

ErrAbciPast == "VoteExtensionsEnableHeight cannot be updated to a past height"

ErrAbciModified == "VoteExtensionsEnableHeight cannot be modified once the initial height has occurred"

ErrPbtsEnabled == "pbts already enabled"

ErrPbtsPast == "PbtsEnableHeight cannot be updated to a past height"

----------------------------------------------------------------------------
(* Defaults *)

DefaultBlockParams == [MaxBytes |-> 4194304, MaxGas |-> 10000000]

DefaultEvidenceParams ==
    [MaxAgeNumBlocks |-> 100000, MaxAgeDuration |-> 48 * 3600 * 1000, MaxBytes |-> 1048576]

\* the slice literal []string{ABCIPubKeyTypeEd25519}; addr is where it is allocated
DefaultValidatorParams(addr) == [PubKeyTypes |-> addr]

DefaultPubKeyTypes == <<ABCIPubKeyTypeEd25519>>

DefaultVersionParams == [App |-> 0]

DefaultABCIParams == [VoteExtensionsEnableHeight |-> 0]

DefaultSynchronyParams == [Precision |-> 500, MessageDelay |-> 2000]

DefaultPBTSParams == [PBTSEnableHeight |-> 0]

DefaultConsensusParams(addr) ==
    [Block     |-> DefaultBlockParams,
     Evidence  |-> DefaultEvidenceParams,
     Validator |-> DefaultValidatorParams(addr),
     Version   |-> DefaultVersionParams,
     ABCI      |-> DefaultABCIParams,
     Synchrony |-> DefaultSynchronyParams,
     PBTS      |-> DefaultPBTSParams]

----------------------------------------------------------------------------
(* Activation predicates: [panic, val] is a panic or the returned bool *)

VoteExtensionsEnabledNoZeroCheck(a, hh) ==
    IF hh < 1 THEN [panic |-> TRUE, val |-> FALSE]
    ELSE [panic |-> FALSE, val |-> a.VoteExtensionsEnableHeight <= hh]

VoteExtensionsEnabled(a, hh) ==
    IF hh < 1 THEN [panic |-> TRUE, val |-> FALSE]
    ELSE IF a.VoteExtensionsEnableHeight = 0 THEN [panic |-> FALSE, val |-> FALSE]
    ELSE [panic |-> FALSE, val |-> a.VoteExtensionsEnableHeight <= hh]

PBTSEnabled(p, hh) ==
    IF hh < 1 THEN [panic |-> TRUE, val |-> FALSE]
    ELSE IF p.PBTSEnableHeight = 0 THEN [panic |-> FALSE, val |-> FALSE]
    ELSE [panic |-> FALSE, val |-> p.PBTSEnableHeight <= hh]

----------------------------------------------------------------------------
(* ValidateBasic *)

RECURSIVE UnknownKeyType(_, _)
\* the loop over params.Validator.PubKeyTypes from index i on
UnknownKeyType(keys, i) ==
    IF i > Len(keys) THEN FALSE
    ELSE IF keys[i] \notin DOMAIN ABCIPubKeyTypesToNames THEN TRUE
    ELSE UnknownKeyType(keys, i + 1)

ValidateBasicNoCeiling(p, hp) ==
    LET maxBytes == p.Block.MaxBytes
        keys     == hp[p.Validator.PubKeyTypes]
    IN  IF p.Block.MaxBytes = 0 THEN "block.MaxBytes cannot be 0"
        ELSE IF p.Block.MaxBytes < -1 THEN "block.MaxBytes must be -1 or greater than 0"
        ELSE IF p.Block.MaxBytes > MaxBlockSizeBytes THEN "block.MaxBytes is too big"
        ELSE IF p.Block.MaxGas < -1 THEN "block.MaxGas must be greater or equal to -1"
        ELSE IF p.Evidence.MaxAgeNumBlocks <= 0 THEN "evidence.MaxAgeNumBlocks must be greater than 0"
        ELSE IF p.Evidence.MaxAgeDuration <= 0 THEN "evidence.MaxAgeDuration must be greater than 0 if provided"
        ELSE IF p.Evidence.MaxBytes > maxBytes THEN "evidence.MaxBytesEvidence is greater than upper bound"
        ELSE IF p.Evidence.MaxBytes < 0 THEN "evidence.MaxBytes must be non negative"
        ELSE IF p.ABCI.VoteExtensionsEnableHeight < 0 THEN "ABCI.VoteExtensionsEnableHeight cannot be negative"
        ELSE IF p.Synchrony.MessageDelay <= 0 THEN "synchrony.MessageDelay must be greater than 0"
        ELSE IF p.Synchrony.Precision <= 0 THEN "synchrony.Precision must be greater than 0"
        ELSE IF p.PBTS.PBTSEnableHeight < 0 THEN "PBTS.PBTSEnableHeight must not be negative"
        ELSE IF Len(keys) = 0 THEN "len(Validator.PubKeyTypes) must be greater than 0"
        ELSE IF UnknownKeyType(keys, 1) THEN "params.Validator.PubKeyTypes is an unknown pubkey type"
        ELSE NoErr

ValidateBasic(p, hp) ==
    LET maxBytes == IF p.Block.MaxBytes = -1 THEN MaxBlockSizeBytes ELSE p.Block.MaxBytes
        keys     == hp[p.Validator.PubKeyTypes]
    IN  IF p.Block.MaxBytes = 0 THEN "block.MaxBytes cannot be 0"
        ELSE IF p.Block.MaxBytes < -1 THEN "block.MaxBytes must be -1 or greater than 0"
        ELSE IF p.Block.MaxBytes > MaxBlockSizeBytes THEN "block.MaxBytes is too big"
        ELSE IF p.Block.MaxGas < -1 THEN "block.MaxGas must be greater or equal to -1"
        ELSE IF p.Evidence.MaxAgeNumBlocks <= 0 THEN "evidence.MaxAgeNumBlocks must be greater than 0"
        ELSE IF p.Evidence.MaxAgeDuration <= 0 THEN "evidence.MaxAgeDuration must be greater than 0 if provided"
        ELSE IF p.Evidence.MaxBytes > maxBytes THEN "evidence.MaxBytesEvidence is greater than upper bound"
        ELSE IF p.Evidence.MaxBytes < 0 THEN "evidence.MaxBytes must be non negative"
        ELSE IF p.ABCI.VoteExtensionsEnableHeight < 0 THEN "ABCI.VoteExtensionsEnableHeight cannot be negative"
        ELSE IF p.Synchrony.MessageDelay <= 0 THEN "synchrony.MessageDelay must be greater than 0"
        ELSE IF p.Synchrony.Precision <= 0 THEN "synchrony.Precision must be greater than 0"
        ELSE IF p.PBTS.PBTSEnableHeight < 0 THEN "PBTS.PBTSEnableHeight must not be negative"
        ELSE IF Len(keys) = 0 THEN "len(Validator.PubKeyTypes) must be greater than 0"
        ELSE IF UnknownKeyType(keys, 1) THEN "params.Validator.PubKeyTypes is an unknown pubkey type"
        ELSE NoErr

----------------------------------------------------------------------------
(* ValidateUpdate and its per-feature guards; u is the dereferenced delta *)

validateUpdateABCINoDisableCheck(p, u, hh) ==
    LET cur  == p.ABCI.VoteExtensionsEnableHeight
        next == u.Abci[1].VoteExtensionsEnableHeight
    IN  IF cur = next THEN NoErr
        ELSE IF next <= hh THEN ErrAbciPast
        ELSE IF cur <= hh THEN ErrAbciModified
        ELSE NoErr

validateUpdateABCIOffByOne(p, u, hh) ==
    LET cur  == p.ABCI.VoteExtensionsEnableHeight
        next == u.Abci[1].VoteExtensionsEnableHeight
    IN  IF cur = next THEN NoErr
        ELSE IF cur # 0 /\ next = 0 THEN ErrDisable
        ELSE IF next < hh THEN ErrAbciPast
        ELSE IF cur <= hh THEN ErrAbciModified
        ELSE NoErr

validateUpdateABCINoModifiedCheck(p, u, hh) ==
    LET cur  == p.ABCI.VoteExtensionsEnableHeight
        next == u.Abci[1].VoteExtensionsEnableHeight
    IN  IF cur = next THEN NoErr
        ELSE IF cur # 0 /\ next = 0 THEN ErrDisable
        ELSE IF next <= hh THEN ErrAbciPast
        ELSE NoErr

validateUpdateABCI(p, u, hh) ==
    LET cur  == p.ABCI.VoteExtensionsEnableHeight
        next == u.Abci[1].VoteExtensionsEnableHeight
    IN  IF cur = next THEN NoErr
        ELSE IF cur # 0 /\ next = 0 THEN ErrDisable
        ELSE IF next <= hh THEN ErrAbciPast
        ELSE IF cur <= hh THEN ErrAbciModified
        ELSE NoErr

validateUpdatePBTSOffByOne(p, u, hh) ==
    IF p.PBTS.PBTSEnableHeight # 0 THEN ErrPbtsEnabled
    ELSE IF u.Pbts[1].PbtsEnableHeight < hh THEN ErrPbtsPast
    ELSE NoErr

validateUpdatePBTSNoEnabledCheck(p, u, hh) ==
    IF u.Pbts[1].PbtsEnableHeight <= hh THEN ErrPbtsPast
    ELSE NoErr

validateUpdatePBTS(p, u, hh) ==
    IF p.PBTS.PBTSEnableHeight # 0 THEN ErrPbtsEnabled
    ELSE IF u.Pbts[1].PbtsEnableHeight <= hh THEN ErrPbtsPast
    ELSE NoErr

ValidateUpdatePanicsBelowOne(p, upd, hh) ==
    IF upd = <<>> \/ hh < 1 THEN ErrPanic
    ELSE LET u    == upd[1]
             errA == IF u.Abci # <<>> THEN validateUpdateABCI(p, u, hh) ELSE NoErr
         IN  IF errA # NoErr THEN errA
             ELSE IF u.Pbts # <<>> THEN validateUpdatePBTS(p, u, hh)
             ELSE errA

\* updated.Abci on a nil delta is a nil-pointer dereference: a run-time panic
ValidateUpdate(p, upd, hh) ==
    IF upd = <<>> THEN ErrPanic
    ELSE LET u    == upd[1]
             errA == IF u.Abci # <<>> THEN validateUpdateABCI(p, u, hh) ELSE NoErr
         IN  IF errA # NoErr THEN errA
             ELSE IF u.Pbts # <<>> THEN validateUpdatePBTS(p, u, hh)
             ELSE errA

----------------------------------------------------------------------------
(* Update: returns the result and the heap after its allocations *)

UpdateKeepsVersion(p, upd, hp) ==
    IF upd = <<>> THEN [res |-> p, heap |-> hp]
    ELSE
    LET u  == upd[1]
        r1 == IF u.Block # <<>>
              THEN [p EXCEPT !.Block.MaxBytes = u.Block[1].MaxBytes,
                             !.Block.MaxGas = u.Block[1].MaxGas]
              ELSE p
        r2 == IF u.Evidence # <<>>
              THEN [r1 EXCEPT !.Evidence.MaxAgeNumBlocks = u.Evidence[1].MaxAgeNumBlocks,
                              !.Evidence.MaxAgeDuration = u.Evidence[1].MaxAgeDuration,
                              !.Evidence.MaxBytes = u.Evidence[1].MaxBytes]
              ELSE r1
        hp2 == IF u.Validator # <<>> THEN Append(hp, hp[u.Validator[1].PubKeyTypes]) ELSE hp
        r3 == IF u.Validator # <<>>
              THEN [r2 EXCEPT !.Validator.PubKeyTypes = Len(hp2)]
              ELSE r2
        r5 == IF u.Abci # <<>>
              THEN [r3 EXCEPT !.ABCI.VoteExtensionsEnableHeight = u.Abci[1].VoteExtensionsEnableHeight]
              ELSE r3
        r6 == IF u.Synchrony # <<>> /\ u.Synchrony[1].MessageDelay # <<>>
              THEN [r5 EXCEPT !.Synchrony.MessageDelay = u.Synchrony[1].MessageDelay[1]]
              ELSE r5
        r7 == IF u.Synchrony # <<>> /\ u.Synchrony[1].Precision # <<>>
              THEN [r6 EXCEPT !.Synchrony.Precision = u.Synchrony[1].Precision[1]]
              ELSE r6
        r8 == IF u.Pbts # <<>>
              THEN [r7 EXCEPT !.PBTS.PBTSEnableHeight = u.Pbts[1].PbtsEnableHeight]
              ELSE r7
    IN  [res |-> r8, heap |-> hp2]

\* res := params copies the struct, so res.Validator.PubKeyTypes is the same
\* address as the receiver's until the Validator branch replaces it by a
\* freshly allocated copy of the delta's array.
Update(p, upd, hp) ==
    IF upd = <<>> THEN [res |-> p, heap |-> hp]
    ELSE
    LET u  == upd[1]
        r1 == IF u.Block # <<>>
              THEN [p EXCEPT !.Block.MaxBytes = u.Block[1].MaxBytes,
                             !.Block.MaxGas = u.Block[1].MaxGas]
              ELSE p
        r2 == IF u.Evidence # <<>>
              THEN [r1 EXCEPT !.Evidence.MaxAgeNumBlocks = u.Evidence[1].MaxAgeNumBlocks,
                              !.Evidence.MaxAgeDuration = u.Evidence[1].MaxAgeDuration,
                              !.Evidence.MaxBytes = u.Evidence[1].MaxBytes]
              ELSE r1
        hp2 == IF u.Validator # <<>> THEN Append(hp, hp[u.Validator[1].PubKeyTypes]) ELSE hp
        r3 == IF u.Validator # <<>>
              THEN [r2 EXCEPT !.Validator.PubKeyTypes = Len(hp2)]
              ELSE r2
        r4 == IF u.Version # <<>>
              THEN [r3 EXCEPT !.Version.App = u.Version[1].App]
              ELSE r3
        r5 == IF u.Abci # <<>>
              THEN [r4 EXCEPT !.ABCI.VoteExtensionsEnableHeight = u.Abci[1].VoteExtensionsEnableHeight]
              ELSE r4
        r6 == IF u.Synchrony # <<>> /\ u.Synchrony[1].MessageDelay # <<>>
              THEN [r5 EXCEPT !.Synchrony.MessageDelay = u.Synchrony[1].MessageDelay[1]]
              ELSE r5
        r7 == IF u.Synchrony # <<>> /\ u.Synchrony[1].Precision # <<>>
              THEN [r6 EXCEPT !.Synchrony.Precision = u.Synchrony[1].Precision[1]]
              ELSE r6
        r8 == IF u.Pbts # <<>>
              THEN [r7 EXCEPT !.PBTS.PBTSEnableHeight = u.Pbts[1].PbtsEnableHeight]
              ELSE r7
    IN  [res |-> r8, heap |-> hp2]

\* a parameter set by value: the slice replaced by the contents it points at
Value(p, hp) == [p EXCEPT !.Validator.PubKeyTypes = hp[@]]

----------------------------------------------------------------------------
(* Inputs *)

Opt(S) == {<<>>} \cup {<<x>> : x \in S}

\* address of the receiver's PubKeyTypes array and of the delta's
ParamsAddr == 1

DeltaAddr == 2

\* the defaults with any enable-heights
ParamSets ==
    {[DefaultConsensusParams(ParamsAddr) EXCEPT
         !.ABCI.VoteExtensionsEnableHeight = a, !.PBTS.PBTSEnableHeight = b] :
     a \in EnableHeights, b \in EnableHeights}

\* the sets a node can hold as its current set: those ValidateBasic accepted
ValidParamSets ==
    {p \in ParamSets : ValidateBasic(p, <<DefaultPubKeyTypes>>) = NoErr}

DeltaBlock == [MaxBytes |-> -1, MaxGas |-> 5000]

DeltaEvidence == [MaxAgeNumBlocks |-> 10, MaxAgeDuration |-> 1000, MaxBytes |-> 512]

DeltaVersion == [App |-> 1]

DeltaPubKeyTypes == {<<>>, <<ABCIPubKeyTypeSecp256k1, ABCIPubKeyTypeEd25519>>}

\* deltas that differ in the sub-groups ValidateUpdate reads
HeightDeltas ==
    [Block     : {<<>>},
     Evidence  : {<<>>},
     Validator : {<<>>},
     Version   : Opt({DeltaVersion}),
     Abci      : Opt([VoteExtensionsEnableHeight : EnableHeights]),
     Synchrony : {<<>>},
     Pbts      : Opt([PbtsEnableHeight : EnableHeights])]

\* deltas with every sub-group present or absent
AllDeltas ==
    [Block     : Opt({DeltaBlock}),
     Evidence  : Opt({DeltaEvidence}),
     Validator : Opt({[PubKeyTypes |-> DeltaAddr]}),
     Version   : Opt({DeltaVersion}),
     Abci      : Opt([VoteExtensionsEnableHeight : EnableHeights]),
     Synchrony : Opt([MessageDelay : Opt({300}), Precision : Opt({100})]),
     Pbts      : Opt([PbtsEnableHeight : EnableHeights])]

NoCall == "none"

NoEnabled == [panic |-> FALSE, val |-> FALSE]

----------------------------------------------------------------------------
(* The node: one delta per height is validated and, if accepted, merged *)

Init ==
    /\ params \in ValidParamSets
    /\ heap = <<DefaultPubKeyTypes>>
    /\ h = 1
    /\ updated = <<>>
    /\ op = "init"
    /\ err = NoCall
    /\ enabled = NoEnabled
    /\ res = params
    /\ old = Value(params, heap)

ProcessUpdate ==
    \E d \in HeightDeltas :
       LET e == ValidateUpdate(params, <<d>>, h)
           m == Update(params, <<d>>, heap)
       IN  /\ updated' = <<d>>
           /\ err' = e
           /\ old' = Value(params, heap)
           /\ params' = IF e = NoErr THEN m.res ELSE params
           /\ heap' = IF e = NoErr THEN m.heap ELSE heap
           /\ res' = params'
           /\ op' = "ProcessUpdate"
           /\ UNCHANGED <<h, enabled>>

AdvanceHeight ==
    /\ h < MaxHeight
    /\ h' = h + 1
    /\ op' = "AdvanceHeight"
    /\ updated' = <<>>
    /\ err' = NoCall
    /\ old' = Value(params, heap)
    /\ UNCHANGED <<params, heap, enabled, res>>

Next == ProcessUpdate \/ AdvanceHeight

Spec == Init /\ [][Next]_vars

----------------------------------------------------------------------------
(* ValidateUpdate and the activation predicates on any inputs *)

InitValidate ==
    /\ params \in ValidParamSets
    /\ heap = <<DefaultPubKeyTypes>>
    /\ h \in Heights
    /\ updated \in Opt(HeightDeltas)
    /\ op = "init"
    /\ err = NoCall
    /\ enabled = NoEnabled
    /\ res = params
    /\ old = Value(params, heap)

ValidateUpdateCall ==
    /\ err' = ValidateUpdate(params, updated, h)
    /\ op' = "ValidateUpdate"
    /\ enabled' = NoEnabled
    /\ UNCHANGED <<params, updated, h, heap, res, old>>

VoteExtensionsEnabledCall ==
    /\ enabled' = VoteExtensionsEnabled(params.ABCI, h)
    /\ op' = "VoteExtensionsEnabled"
    /\ err' = NoCall
    /\ UNCHANGED <<params, updated, h, heap, res, old>>

PBTSEnabledCall ==
    /\ enabled' = PBTSEnabled(params.PBTS, h)
    /\ op' = "PBTSEnabled"
    /\ err' = NoCall
    /\ UNCHANGED <<params, updated, h, heap, res, old>>

NextValidate == ValidateUpdateCall \/ VoteExtensionsEnabledCall \/ PBTSEnabledCall

SpecValidate == InitValidate /\ [][NextValidate]_vars

----------------------------------------------------------------------------
(* Update on any inputs, and a caller that then writes to the result *)

InitUpdate ==
    /\ params \in ValidParamSets
    /\ updated \in Opt(AllDeltas)
    /\ \E keys \in DeltaPubKeyTypes :
          heap = IF updated # <<>> /\ updated[1].Validator # <<>>
                 THEN <<DefaultPubKeyTypes, keys>>
                 ELSE <<DefaultPubKeyTypes>>
    /\ h = 1
    /\ op = "init"
    /\ err = NoCall
    /\ enabled = NoEnabled
    /\ res = params
    /\ old = Value(params, heap)

UpdateCall ==
    /\ op = "init"
    /\ LET m == Update(params, updated, heap)
       IN  /\ res' = m.res
           /\ heap' = m.heap
    /\ old' = Value(params, heap)
    /\ op' = "Update"
    /\ UNCHANGED <<params, updated, h, err, enabled>>

\* the caller overwrites one element of the returned set's PubKeyTypes
WriteResult ==
    /\ op = "Update"
    /\ \E i \in 1..Len(heap[res.Validator.PubKeyTypes]) :
       \E v \in DOMAIN ABCIPubKeyTypesToNames \ {heap[res.Validator.PubKeyTypes][i]} :
          heap' = [heap EXCEPT ![res.Validator.PubKeyTypes][i] = v]
    /\ op' = "Write"
    /\ UNCHANGED <<params, updated, h, err, enabled, res, old>>

NextUpdate == UpdateCall \/ WriteResult

SpecUpdate == InitUpdate /\ [][NextUpdate]_vars

----------------------------------------------------------------------------
(* ValidateBasic on any parameter set, the ones it refuses included *)

\* contents of Validator.PubKeyTypes: none, known ones, and one that is not
\* in ABCIPubKeyTypesToNames, alone and after a known one
BasicPubKeyTypes ==
    {<<>>, DefaultPubKeyTypes,
     <<ABCIPubKeyTypeEd25519, ABCIPubKeyTypeSecp256k1>>,
     <<"bls12_381">>, <<ABCIPubKeyTypeEd25519, "bls12_381">>}

\* every field around the limits ValidateBasic tests, and at its default
BasicParamSets ==
    [Block     : [MaxBytes : {-2, -1, 0, 1, DefaultBlockParams.MaxBytes,
                              MaxBlockSizeBytes, MaxBlockSizeBytes + 1},
                  MaxGas   : {-2, -1, DefaultBlockParams.MaxGas}],
     Evidence  : [MaxAgeNumBlocks : {0, DefaultEvidenceParams.MaxAgeNumBlocks},
                  MaxAgeDuration  : {0, DefaultEvidenceParams.MaxAgeDuration},
                  MaxBytes        : {-1, 0, 1, 2, DefaultEvidenceParams.MaxBytes,
                                     MaxBlockSizeBytes, MaxBlockSizeBytes + 1}],
     Validator : {DefaultValidatorParams(ParamsAddr)},
     Version   : {DefaultVersionParams},
     ABCI      : [VoteExtensionsEnableHeight : {-1, 0, 1}],
     Synchrony : [Precision    : {0, DefaultSynchronyParams.Precision},
                  MessageDelay : {-1, DefaultSynchronyParams.MessageDelay}],
     PBTS      : [PBTSEnableHeight : {-1, 0, 1}]]

InitBasic ==
    /\ params \in BasicParamSets
    /\ \E keys \in BasicPubKeyTypes : heap = <<keys>>
    /\ h = 1
    /\ updated = <<>>
    /\ op = "init"
    /\ err = NoCall
    /\ enabled = NoEnabled
    /\ res = params
    /\ old = Value(params, heap)

ValidateBasicCall ==
    /\ op = "init"
    /\ err' = ValidateBasic(params, heap)
    /\ op' = "ValidateBasic"
    /\ UNCHANGED <<params, updated, h, heap, enabled, res, old>>

NextBasic == ValidateBasicCall

SpecBasic == InitBasic /\ [][NextBasic]_vars

----------------------------------------------------------------------------
(* Claims *)

\* C1: for h >= 1 and a delta with the ABCI sub-group present and PBTS
\* absent, ValidateUpdate accepts exactly as the guard table says: accept if
\* next = cur; else reject if cur # 0 and next = 0; else reject if next <= h;
\* else reject if cur # 0 and cur <= h; else accept.
C1_GuardTable ==
    (op = "ValidateUpdate" /\ h >= 1 /\ updated # <<>>
        /\ updated[1].Abci # <<>> /\ updated[1].Pbts = <<>>)
    => LET cur  == params.ABCI.VoteExtensionsEnableHeight
           next == updated[1].Abci[1].VoteExtensionsEnableHeight
       IN  (err = NoErr) <=>
             \/ next = cur
             \/ /\ ~(cur # 0 /\ next = 0)
                /\ ~(next <= h)
                /\ ~(cur # 0 /\ cur <= h)

\* C2: a merge that ValidateUpdate accepted at height h >= 1 changes no
\* activation decision for a height k in 1..h, and a feature that is enabled
\* at h keeps its enable-height and is enabled at the next height too.
C2_DecisionsFixed ==
    [][(h >= 1 /\ h' >= h) =>
         /\ \A k \in 1..h :
               /\ VoteExtensionsEnabled(params'.ABCI, k) = VoteExtensionsEnabled(params.ABCI, k)
               /\ PBTSEnabled(params'.PBTS, k) = PBTSEnabled(params.PBTS, k)
         /\ VoteExtensionsEnabled(params.ABCI, h).val =>
               /\ params'.ABCI = params.ABCI
               /\ VoteExtensionsEnabled(params'.ABCI, h').val
         /\ PBTSEnabled(params.PBTS, h).val =>
               /\ params'.PBTS = params.PBTS
               /\ PBTSEnabled(params'.PBTS, h').val]_vars

\* C2 witness: an accepted merge moved both enable-heights
C2_Witness ==
    /\ op = "ProcessUpdate" /\ err = NoErr
    /\ old.ABCI # params.ABCI
    /\ old.PBTS # params.PBTS

\* C3: with a nonzero VoteExtensionsEnableHeight, a delta whose ABCI sub-group
\* proposes 0 is rejected with the "cannot be disabled" failure at every
\* height, and no validated merge takes a nonzero
\* VoteExtensionsEnableHeight back to 0.
C3_NeverDisabled ==
    /\ [](/\ (op = "ProcessUpdate" /\ old.ABCI.VoteExtensionsEnableHeight # 0
                /\ updated[1].Abci = <<[VoteExtensionsEnableHeight |-> 0]>>)
             => err = ErrDisable
          /\ params.ABCI.VoteExtensionsEnableHeight # 0 =>
               \A hh \in Heights : \A d \in HeightDeltas :
                  d.Abci = <<[VoteExtensionsEnableHeight |-> 0]>>
                  => ValidateUpdate(params, <<d>>, hh) = ErrDisable)
    /\ [][params.ABCI.VoteExtensionsEnableHeight # 0
            => params'.ABCI.VoteExtensionsEnableHeight # 0]_vars

\* C3 witness: a delta proposing 0 met a nonzero enable-height and was refused
C3_Witness ==
    /\ op = "ProcessUpdate"
    /\ old.ABCI.VoteExtensionsEnableHeight # 0
    /\ updated[1].Abci = <<[VoteExtensionsEnableHeight |-> 0]>>
    /\ err = ErrDisable
    /\ params.ABCI.VoteExtensionsEnableHeight = old.ABCI.VoteExtensionsEnableHeight

\* C4: for h >= 1 and a delta with the PBTS sub-group present whose ABCI
\* sub-group is absent or passes the ABCI guard, ValidateUpdate accepts iff
\* the current PBTSEnableHeight is 0 and the proposed one is > h; with a
\* nonzero current PBTSEnableHeight the answer is "pbts already enabled".
C4_PbtsGuard ==
    (op = "ValidateUpdate" /\ h >= 1 /\ updated # <<>> /\ updated[1].Pbts # <<>>
        /\ (updated[1].Abci = <<>> \/ validateUpdateABCI(params, updated[1], h) = NoErr))
    => LET cur  == params.PBTS.PBTSEnableHeight
           next == updated[1].Pbts[1].PbtsEnableHeight
       IN  /\ (err = NoErr) <=> (cur = 0 /\ next > h)
           /\ cur # 0 => err = ErrPbtsEnabled

\* C4 witness: the scheduled, not yet reached PBTS height is proposed again
C4_Witness ==
    /\ op = "ValidateUpdate" /\ h >= 1 /\ updated # <<>> /\ updated[1].Pbts # <<>>
    /\ updated[1].Abci # <<>>
    /\ params.PBTS.PBTSEnableHeight > h
    /\ updated[1].Pbts[1].PbtsEnableHeight = params.PBTS.PBTSEnableHeight
    /\ err = ErrPbtsEnabled

\* C5 as stated: for h >= 1, ValidateUpdate rejects every delta whose ABCI
\* sub-group proposes a VoteExtensionsEnableHeight <= h.
C5_Original ==
    (op = "ValidateUpdate" /\ h >= 1 /\ updated # <<>> /\ updated[1].Abci # <<>>
        /\ updated[1].Abci[1].VoteExtensionsEnableHeight <= h)
    => err # NoErr

\* C5 amended: for h >= 1, ValidateUpdate rejects every delta whose ABCI
\* sub-group proposes a VoteExtensionsEnableHeight <= h that differs from the
\* current one.
C5_PastHeightRejected ==
    (op = "ValidateUpdate" /\ h >= 1 /\ updated # <<>> /\ updated[1].Abci # <<>>
        /\ updated[1].Abci[1].VoteExtensionsEnableHeight <= h
        /\ updated[1].Abci[1].VoteExtensionsEnableHeight # params.ABCI.VoteExtensionsEnableHeight)
    => err \in {ErrDisable, ErrAbciPast}

\* C5 witness: a scheduled future height is moved to the current height
C5_Witness ==
    /\ op = "ValidateUpdate" /\ h >= 1 /\ updated # <<>> /\ updated[1].Abci # <<>>
    /\ params.ABCI.VoteExtensionsEnableHeight > h
    /\ updated[1].Abci[1].VoteExtensionsEnableHeight = h
    /\ err = ErrAbciPast

\* C6 as stated: with a current VoteExtensionsEnableHeight that is nonzero
\* and <= h, ValidateUpdate rejects every delta whose ABCI sub-group is
\* present, the one that proposes the current value again included.
C6_Original ==
    (op = "ValidateUpdate" /\ updated # <<>> /\ updated[1].Abci # <<>>
        /\ params.ABCI.VoteExtensionsEnableHeight # 0
        /\ params.ABCI.VoteExtensionsEnableHeight <= h)
    => err # NoErr

\* C6 amended: with a current VoteExtensionsEnableHeight that is nonzero and
\* <= h, ValidateUpdate rejects every delta whose ABCI sub-group proposes a
\* value other than the current one.
C6_ActiveImmutable ==
    (op = "ValidateUpdate" /\ updated # <<>> /\ updated[1].Abci # <<>>
        /\ params.ABCI.VoteExtensionsEnableHeight # 0
        /\ params.ABCI.VoteExtensionsEnableHeight <= h
        /\ updated[1].Abci[1].VoteExtensionsEnableHeight # params.ABCI.VoteExtensionsEnableHeight)
    => err \in {ErrDisable, ErrAbciPast, ErrAbciModified}

\* C6 witness: an active feature is asked to move to a future height
C6_Witness ==
    /\ op = "ValidateUpdate" /\ updated # <<>> /\ updated[1].Abci # <<>>
    /\ params.ABCI.VoteExtensionsEnableHeight >= 1
    /\ params.ABCI.VoteExtensionsEnableHeight <= h
    /\ updated[1].Abci[1].VoteExtensionsEnableHeight > h
    /\ err = ErrAbciModified

\* C7: VoteExtensionsEnabled(h) and PBTSEnabled(h) panic for h < 1; for
\* h >= 1 they return true iff the enable-height is nonzero and <= h.
C7_ActivationPredicate ==
    /\ op = "VoteExtensionsEnabled" =>
          IF h < 1 THEN enabled.panic
          ELSE /\ ~enabled.panic
               /\ enabled.val <=> (/\ params.ABCI.VoteExtensionsEnableHeight # 0
                                   /\ params.ABCI.VoteExtensionsEnableHeight <= h)
    /\ op = "PBTSEnabled" =>
          IF h < 1 THEN enabled.panic
          ELSE /\ ~enabled.panic
               /\ enabled.val <=> (/\ params.PBTS.PBTSEnableHeight # 0
                                   /\ params.PBTS.PBTSEnableHeight <= h)

\* C7 witness: vote extensions found enabled at a height past their enable-height
C7_Witness ==
    /\ op = "VoteExtensionsEnabled"
    /\ params.ABCI.VoteExtensionsEnableHeight >= 1
    /\ params.ABCI.VoteExtensionsEnableHeight < h
    /\ enabled = [panic |-> FALSE, val |-> TRUE]

C9_EmptyDeltaIndependent ==
    (updated = <<>> \/ \A f \in DOMAIN updated[1] : updated[1][f] = <<>>)
    => /\ op = "Update" => Value(res, heap) = old
       /\ op = "Write" => Value(params, heap) = old

\* C10: Update leaves its input as it was, and in the result every sub-group
\* present in the delta carries the delta's values (Synchrony field by field)
\* while every absent sub-group equals the input's.
C10_UpdateFrame ==
    op = "Update" =>
       LET v == Value(res, heap)
       IN  /\ Value(params, heap) = old
           /\ IF updated = <<>> THEN v = old
              ELSE LET u == updated[1]
                   IN  /\ v.Block = IF u.Block # <<>> THEN u.Block[1] ELSE old.Block
                       /\ v.Evidence = IF u.Evidence # <<>> THEN u.Evidence[1] ELSE old.Evidence
                       /\ v.Validator.PubKeyTypes =
                             IF u.Validator # <<>> THEN heap[u.Validator[1].PubKeyTypes]
                             ELSE old.Validator.PubKeyTypes
                       /\ v.Version = IF u.Version # <<>> THEN u.Version[1] ELSE old.Version
                       /\ v.ABCI.VoteExtensionsEnableHeight =
                             IF u.Abci # <<>> THEN u.Abci[1].VoteExtensionsEnableHeight
                             ELSE old.ABCI.VoteExtensionsEnableHeight
                       /\ v.Synchrony.MessageDelay =
                             IF u.Synchrony # <<>> /\ u.Synchrony[1].MessageDelay # <<>>
                             THEN u.Synchrony[1].MessageDelay[1]
                             ELSE old.Synchrony.MessageDelay
                       /\ v.Synchrony.Precision =
                             IF u.Synchrony # <<>> /\ u.Synchrony[1].Precision # <<>>
                             THEN u.Synchrony[1].Precision[1]
                             ELSE old.Synchrony.Precision
                       /\ v.PBTS.PBTSEnableHeight =
                             IF u.Pbts # <<>> THEN u.Pbts[1].PbtsEnableHeight
                             ELSE old.PBTS.PBTSEnableHeight

\* C10 witness: a delta with Block, Validator, Version and only the
\* MessageDelay of Synchrony was merged; Evidence, ABCI and PBTS were absent
C10_Witness ==
    /\ op = "Update" /\ updated # <<>>
    /\ updated[1].Block # <<>> /\ updated[1].Version # <<>>
    /\ updated[1].Validator # <<>> /\ heap[DeltaAddr] # <<>>
    /\ updated[1].Evidence = <<>> /\ updated[1].Abci = <<>> /\ updated[1].Pbts = <<>>
    /\ updated[1].Synchrony # <<>>
    /\ updated[1].Synchrony[1].MessageDelay # <<>>
    /\ updated[1].Synchrony[1].Precision = <<>>
    /\ res.Synchrony = [Precision |-> 500, MessageDelay |-> 300]
    /\ res.Version.App = 1
    /\ res.Validator.PubKeyTypes # params.Validator.PubKeyTypes

\* C11: ValidateBasic succeeds exactly for the sets with Block.MaxBytes = -1
\* or in (0, MaxBlockSizeBytes], Block.MaxGas >= -1, Evidence.MaxAgeNumBlocks
\* > 0, Evidence.MaxAgeDuration > 0, Evidence.MaxBytes between 0 and the block
\* ceiling (MaxBlockSizeBytes when Block.MaxBytes is -1), both enable-heights
\* >= 0, both Synchrony durations > 0, and a non-empty PubKeyTypes of known
\* key types; it refuses Block.MaxBytes = 0 and Block.MaxBytes >
\* MaxBlockSizeBytes, and it accepts the default set.
C11_ValidateBasicExact ==
    op = "ValidateBasic" =>
       LET v       == Value(params, heap)
           ceiling == IF v.Block.MaxBytes = -1 THEN 100 * 1024 * 1024 ELSE v.Block.MaxBytes
       IN  /\ (err = NoErr) <=>
                /\ v.Block.MaxBytes = -1
                   \/ (v.Block.MaxBytes > 0 /\ v.Block.MaxBytes <= 100 * 1024 * 1024)
                /\ v.Block.MaxGas >= -1
                /\ v.Evidence.MaxAgeNumBlocks > 0
                /\ v.Evidence.MaxAgeDuration > 0
                /\ v.Evidence.MaxBytes >= 0
                /\ v.Evidence.MaxBytes <= ceiling
                /\ v.ABCI.VoteExtensionsEnableHeight >= 0
                /\ v.Synchrony.MessageDelay > 0
                /\ v.Synchrony.Precision > 0
                /\ v.PBTS.PBTSEnableHeight >= 0
                /\ Len(v.Validator.PubKeyTypes) > 0
                /\ \A i \in 1..Len(v.Validator.PubKeyTypes) :
                      v.Validator.PubKeyTypes[i] \in {"ed25519", "secp256k1"}
           /\ (v.Block.MaxBytes = 0 \/ v.Block.MaxBytes > 100 * 1024 * 1024) => err # NoErr
           /\ v = Value(DefaultConsensusParams(ParamsAddr), <<DefaultPubKeyTypes>>) => err = NoErr

\* C11 witness: a set with no block-size limit and evidence as large as the
\* global ceiling is accepted
C11_Witness ==
    /\ op = "ValidateBasic"
    /\ params.Block.MaxBytes = -1
    /\ params.Evidence.MaxBytes = MaxBlockSizeBytes
    /\ heap[params.Validator.PubKeyTypes] = <<ABCIPubKeyTypeEd25519, ABCIPubKeyTypeSecp256k1>>
    /\ err = NoErr

====
